---- MODULE Spec2Model ----
(***************************************************************************)
(* DaragaAPI: the M-Pesa donation relay.                                   *)
(*                                                                         *)
(* src/app.py  : /donate (token exchange, STK push, Pending record in the  *)
(*               'donations' collection) and /mpesa-callback (lookup by    *)
(*               checkout_request_id, update to Paid, Twilio SMS).         *)
(* src/main.py : the store-less revision of /donate and /mpesa-callback.   *)
(*                                                                         *)
(* Each request runs in a worker; a worker is preempted only where the     *)
(* handler waits for a collaborator (the token exchange, the STK push, the *)
(* Firestore query, the Firestore update, the Twilio send), so one action  *)
(* is the code between two such points.                                    *)
(*                                                                         *)
(* Values: a JSON object or Python dict is a function on strings, {} and   *)
(* [] are << >>, Python's None is the value None, a phone number is the    *)
(* sequence of its digits (so that f"254{phone}" is a concatenation).      *)
(***************************************************************************)
EXTENDS Integers, Sequences, FiniteSets, TLC

VARIABLES store, issued, now, pc, handler, frame, resp, sms_attempts, nreq

vars == <<store, issued, now, pc, handler, frame, resp, sms_attempts, nreq>>

\* ------------------------------------------------------------------ bounds
MaxRequests == 3

Workers == {1, 2}

\* ------------------------------------------------------------ Python values
None == "None"

EmptyDict == << >>

\* d.get(k, default)
Get(d, k, default) == IF k \in DOMAIN d THEN d[k] ELSE default

\* mutant of Truthy: tests `is not None` only, so "" passes
Truthy_NotNone(s) == s # None

\* `if s:` / `not s` for a str-or-None value
Truthy(s) == s # None /\ s # ""

\* `if d:` / `not d` for a dict
TruthyDict(d) == DOMAIN d # {}

\* f"254{phone}"
Prefix254(phone) == <<2, 5, 4>> \o phone

\* dict.update / DocumentReference.update: the fields of u overwrite those of d
Merge(d, u) ==
    [k \in DOMAIN d \cup DOMAIN u |-> IF k \in DOMAIN u THEN u[k] ELSE d[k]]

\* ------------------------------------------------------------------ inputs
\* DonationRequest bodies: email defaults to None, message to ""
DonationRequests ==
    { [name |-> "Ann", phone |-> <<7, 1, 2>>, amount |-> 100,
       email |-> None, message |-> ""],
      [name |-> "Bob", phone |-> <<7, 3, 4>>, amount |-> 250,
       email |-> "bob@example.org", message |-> "Keep it up"] }

\* DonationRequest of src/main.py has no email field
MainDonationRequests ==
    { [name |-> "Ann", phone |-> <<7, 1, 2>>, amount |-> 100, message |-> ""] }

\* What the Authorization Service may answer
TokenResponses ==
    { [status_code |-> 200, text |-> "ok", json |-> [access_token |-> "eyJhbGci"]],
      [status_code |-> 200, text |-> "ok", json |-> EmptyDict],
      [status_code |-> 401, text |-> "Unauthorized", json |-> EmptyDict] }

\* The CheckoutRequestID the provider issues for its n-th accepted push
TokenNames == <<"ws_CO_1", "ws_CO_2", "ws_CO_3", "ws_CO_4", "ws_CO_5", "ws_CO_6">>

CheckoutID(n) == TokenNames[n]

UnknownToken == "ws_CO_unknown"

\* What the Payment Push Service may answer; fresh is the next unused id
StkResponses(fresh) ==
    { [status_code |-> 200, text |-> "ok",
       json |-> [CheckoutRequestID |-> fresh, ResponseCode |-> "0"]],
      [status_code |-> 200, text |-> "ok", json |-> [ResponseCode |-> "0"]],
      [status_code |-> 200, text |-> "ok",
       json |-> [CheckoutRequestID |-> "", ResponseCode |-> "0"]],
      [status_code |-> 400, text |-> "Bad Request - Invalid PhoneNumber",
       json |-> EmptyDict] }

\* CallbackMetadata.Item lists; the provider's Balance item carries no Value
Items1 ==
    << [Name |-> "Amount", Value |-> 500],
       [Name |-> "MpesaReceiptNumber", Value |-> "ABC123"],
       [Name |-> "Balance"],
       [Name |-> "TransactionDate", Value |-> "20240101120000"],
       [Name |-> "PhoneNumber", Value |-> <<2, 5, 4, 7, 0, 0>>] >>

Items2 ==
    << [Name |-> "Amount", Value |-> 700],
       [Name |-> "MpesaReceiptNumber", Value |-> "XYZ789"],
       [Name |-> "PhoneNumber", Value |-> <<2, 5, 4, 7, 9, 9>>] >>

StkCallbackSuccess(token, items) ==
    [ResultCode |-> 0, CheckoutRequestID |-> token,
     CallbackMetadata |-> [Item |-> items]]

\* The callback bodies that may arrive once tokens 1..issued exist
CallbackBodies ==
    LET known == {CheckoutID(n) : n \in 1..issued} \cup {UnknownToken} IN
    { [Body |-> [stkCallback |-> StkCallbackSuccess(t, i)]] :
          t \in known, i \in {Items1, Items2} }
    \cup { [Body |-> [stkCallback |->
              [ResultCode |-> 1032, CheckoutRequestID |-> t]]] : t \in known }
    \cup { [Body |-> [stkCallback |-> [ResultCode |-> 0, CheckoutRequestID |-> t]]] :
              t \in known \ {UnknownToken} }
    \cup { [Body |-> [stkCallback |->
              [ResultCode |-> 0, CallbackMetadata |-> [Item |-> Items1]]]],
           EmptyDict }

\* ------------------------------------------------------------------ state
Init ==
    /\ store = << >>
    /\ issued = 0
    /\ now = 1
    /\ pc = [p \in Workers |-> "idle"]
    /\ handler = [p \in Workers |-> "none"]
    /\ frame = [p \in Workers |-> EmptyDict]
    /\ resp = [p \in Workers |-> EmptyDict]
    /\ sms_attempts = 0
    /\ nreq = 0

Free(p) == pc[p] \in {"idle", "done"}

\* A request is served by the first worker that is free
Accepts(p) ==
    /\ nreq < MaxRequests
    /\ Free(p)
    /\ p = CHOOSE q \in Workers : Free(q) /\ \A r \in Workers : Free(r) => q <= r

\* mutant of HTTPException: the detail is replaced by a generic text
HTTPException_GenericDetail(status_code, detail) ==
    [status_code |-> status_code, detail |-> <<"Internal Server Error">>]

HTTPException(status_code, detail) ==
    [status_code |-> status_code, detail |-> detail]

Ok(body) == [status_code |-> 200, body |-> body]

\* ------------------------------------------------------- /donate (app.py)
\* the STK push payload and headers
Payload(data) ==
    [Amount |-> data.amount, PartyA |-> Prefix254(data.phone),
     PhoneNumber |-> Prefix254(data.phone),
     TransactionDesc |-> <<"Donation from ", data.name>>]

Headers(access_token) == [Authorization |-> <<"Bearer ", access_token>>]

\* mutant of donation_record: the email is not carried over
donation_record_DropsEmail(data, checkout_request_id, created_at) ==
    [name |-> data.name,
     phone |-> Prefix254(data.phone),
     amount |-> data.amount,
     email |-> None,
     message |-> data.message,
     status |-> "Pending",
     checkout_request_id |-> checkout_request_id,
     created_at |-> created_at]

donation_record(data, checkout_request_id, created_at) ==
    [name |-> data.name,
     phone |-> Prefix254(data.phone),
     amount |-> data.amount,
     email |-> data.email,
     message |-> data.message,
     status |-> "Pending",
     checkout_request_id |-> checkout_request_id,
     created_at |-> created_at]

\* the request arrives and the token exchange is sent
DonateStart(p, data) ==
    /\ Accepts(p)
    /\ nreq' = nreq + 1
    /\ pc' = [pc EXCEPT ![p] = "get_token"]
    /\ handler' = [handler EXCEPT ![p] = "app.donate"]
    /\ frame' = [frame EXCEPT ![p] = [data |-> data]]
    /\ resp' = [resp EXCEPT ![p] = EmptyDict]
    /\ UNCHANGED <<store, issued, now, sms_attempts>>

\* the token exchange answers; on 200 the STK push is sent
DonateTokenResp(p, token_resp) ==
    /\ pc[p] = "get_token" /\ handler[p] = "app.donate"
    /\ IF token_resp.status_code # 200
       THEN /\ pc' = [pc EXCEPT ![p] = "done"]
            /\ frame' = [frame EXCEPT ![p] = Merge(@, [token_resp |-> token_resp])]
            /\ resp' = [resp EXCEPT ![p] =
                   HTTPException(500, <<"Failed to authenticate with Safaricom">>)]
       ELSE LET access_token == Get(token_resp.json, "access_token", None) IN
            /\ pc' = [pc EXCEPT ![p] = "stk_push"]
            /\ frame' = [frame EXCEPT ![p] = Merge(@,
                   [token_resp |-> token_resp, access_token |-> access_token,
                    payload |-> Payload(frame[p].data),
                    headers |-> Headers(access_token)])]
            /\ UNCHANGED resp
    /\ UNCHANGED <<store, issued, now, handler, sms_attempts, nreq>>

\* the STK push answers: error, or the response is returned and, when it
\* carries a CheckoutRequestID, the Pending record is added first
DonateStkResp(p, stk_resp) ==
    /\ pc[p] = "stk_push" /\ handler[p] = "app.donate"
    /\ pc' = [pc EXCEPT ![p] = "done"]
    /\ frame' = [frame EXCEPT ![p] = Merge(@, [stk_resp |-> stk_resp])]
    /\ IF stk_resp.status_code # 200
       THEN /\ resp' = [resp EXCEPT ![p] =
                   HTTPException(500, <<"Safaricom STK Push failed: ", stk_resp.text>>)]
            /\ UNCHANGED <<store, now>>
       ELSE LET stk_data == stk_resp.json
                checkout_request_id == Get(stk_data, "CheckoutRequestID", None) IN
            /\ resp' = [resp EXCEPT ![p] = Ok(stk_data)]
            /\ IF Truthy(checkout_request_id)
               THEN /\ store' = Append(store,
                           donation_record(frame[p].data, checkout_request_id, now))
                    /\ now' = now + 1
               ELSE UNCHANGED <<store, now>>
    /\ issued' = IF stk_resp.status_code = 200
                    /\ Truthy(Get(stk_resp.json, "CheckoutRequestID", None))
                 THEN issued + 1 ELSE issued
    /\ UNCHANGED <<handler, sms_attempts, nreq>>

\* ------------------------------------------------------ /donate (main.py)
MainDonateStart(p, data) ==
    /\ Accepts(p)
    /\ nreq' = nreq + 1
    /\ pc' = [pc EXCEPT ![p] = "get_token"]
    /\ handler' = [handler EXCEPT ![p] = "main.donate"]
    /\ frame' = [frame EXCEPT ![p] = [data |-> data]]
    /\ resp' = [resp EXCEPT ![p] = EmptyDict]
    /\ UNCHANGED <<store, issued, now, sms_attempts>>

MainDonateTokenResp(p, token_resp) ==
    /\ pc[p] = "get_token" /\ handler[p] = "main.donate"
    /\ LET access_token == Get(token_resp.json, "access_token", None) IN
       IF token_resp.status_code # 200
       THEN /\ pc' = [pc EXCEPT ![p] = "done"]
            /\ frame' = [frame EXCEPT ![p] = Merge(@, [token_resp |-> token_resp])]
            /\ resp' = [resp EXCEPT ![p] =
                   HTTPException(500, <<"Failed to authenticate with Safaricom">>)]
       ELSE IF ~Truthy(access_token)
       THEN /\ pc' = [pc EXCEPT ![p] = "done"]
            /\ frame' = [frame EXCEPT ![p] = Merge(@,
                   [token_resp |-> token_resp, access_token |-> access_token])]
            /\ resp' = [resp EXCEPT ![p] =
                   HTTPException(500, <<"Access token not found in Safaricom response.">>)]
       ELSE /\ pc' = [pc EXCEPT ![p] = "stk_push"]
            /\ frame' = [frame EXCEPT ![p] = Merge(@,
                   [token_resp |-> token_resp, access_token |-> access_token,
                    payload |-> Payload(frame[p].data),
                    headers |-> Headers(access_token)])]
            /\ UNCHANGED resp
    /\ UNCHANGED <<store, issued, now, handler, sms_attempts, nreq>>

MainDonateStkResp(p, stk_resp) ==
    /\ pc[p] = "stk_push" /\ handler[p] = "main.donate"
    /\ pc' = [pc EXCEPT ![p] = "done"]
    /\ frame' = [frame EXCEPT ![p] = Merge(@, [stk_resp |-> stk_resp])]
    /\ resp' = [resp EXCEPT ![p] =
           IF stk_resp.status_code # 200
           THEN HTTPException(500, <<"Safaricom STK Push failed: ", stk_resp.text>>)
           ELSE Ok(stk_resp.json)]
    /\ issued' = IF stk_resp.status_code = 200
                    /\ Truthy(Get(stk_resp.json, "CheckoutRequestID", None))
                 THEN issued + 1 ELSE issued
    /\ UNCHANGED <<store, now, handler, sms_attempts, nreq>>

\* ----------------------------------------------- /mpesa-callback (app.py)
\* {item['Name']: item.get('Value') for item in callback_metadata}: a later
\* item of the same name overrides an earlier one
mpesa_data_of(callback_metadata) ==
    [n \in {callback_metadata[i].Name : i \in DOMAIN callback_metadata} |->
        LET last == CHOOSE i \in DOMAIN callback_metadata :
                        /\ callback_metadata[i].Name = n
                        /\ \A j \in DOMAIN callback_metadata :
                               callback_metadata[j].Name = n => j <= i
        IN Get(callback_metadata[last], "Value", None)]

\* mutant of ResultCodeNotZero: a missing ResultCode counts as success
ResultCodeNotZero_MissingIsSuccess(stk_callback) ==
    "ResultCode" \in DOMAIN stk_callback /\ stk_callback.ResultCode # 0

\* stk_callback.get('ResultCode') != 0
ResultCodeNotZero(stk_callback) ==
    ~("ResultCode" \in DOMAIN stk_callback /\ stk_callback.ResultCode = 0)

\* mutant of Where: the equality filter is lost
Where_AnyDocument(checkout_request_id) == DOMAIN store

\* donations_ref.where('checkout_request_id', '==', checkout_request_id)
Where(checkout_request_id) ==
    {i \in DOMAIN store : store[i].checkout_request_id = checkout_request_id}

\* .limit(1): the first of the matching documents
Limit1(docs) ==
    IF docs = {} THEN {} ELSE {CHOOSE i \in docs : \A j \in docs : i <= j}

\* the fields doc.reference.update writes
UpdateFields(mpesa_data, updated_at) ==
    [status |-> "Paid",
     mpesa_receipt_number |-> Get(mpesa_data, "MpesaReceiptNumber", None),
     transaction_date |-> Get(mpesa_data, "TransactionDate", None),
     amount |-> Get(mpesa_data, "Amount", None),
     phone |-> Get(mpesa_data, "PhoneNumber", None),
     updated_at |-> updated_at]

\* mutant of Updated: the charged amount is added to the stored amount
Updated_AddsAmount(document, mpesa_data, updated_at) ==
    Merge(document,
          [UpdateFields(mpesa_data, updated_at) EXCEPT
               !.amount = document.amount + mpesa_data.Amount])

\* the document after doc.reference.update
Updated(document, mpesa_data, updated_at) ==
    Merge(document, UpdateFields(mpesa_data, updated_at))

CallbackFailed == Ok([message |-> "Payment failed or cancelled"])

CallbackMissing == Ok([message |-> "Missing payment metadata"])

CallbackReceived ==
    Ok([message |-> "Callback received and donation updated successfully"])

\* mutant of AfterSms: the Twilio exception is not caught
AfterSms_Propagates(sent) ==
    IF sent THEN CallbackReceived
    ELSE [status_code |-> 500, detail |-> <<"Internal Server Error">>]

\* what the handler answers once the Twilio call has returned or raised
AfterSms(sent) == CallbackReceived

\* the callback arrives: the early returns, else the query is run
CallbackRecv(p, body) ==
    /\ Accepts(p)
    /\ nreq' = nreq + 1
    /\ handler' = [handler EXCEPT ![p] = "app.mpesa_callback"]
    /\ LET stk_callback == Get(Get(body, "Body", EmptyDict), "stkCallback", EmptyDict)
           callback_metadata ==
               Get(Get(stk_callback, "CallbackMetadata", EmptyDict), "Item", << >>)
           mpesa_data == mpesa_data_of(callback_metadata)
           checkout_request_id == Get(stk_callback, "CheckoutRequestID", None)
           pending_donation == Limit1(Where(checkout_request_id))
       IN
       IF ResultCodeNotZero(stk_callback)
       THEN /\ pc' = [pc EXCEPT ![p] = "done"]
            /\ frame' = [frame EXCEPT ![p] = [stk_callback |-> stk_callback]]
            /\ resp' = [resp EXCEPT ![p] = CallbackFailed]
       ELSE IF ~TruthyDict(mpesa_data) \/ ~Truthy(checkout_request_id)
       THEN /\ pc' = [pc EXCEPT ![p] = "done"]
            /\ frame' = [frame EXCEPT ![p] =
                   [stk_callback |-> stk_callback, mpesa_data |-> mpesa_data,
                    checkout_request_id |-> checkout_request_id]]
            /\ resp' = [resp EXCEPT ![p] = CallbackMissing]
       ELSE IF pending_donation = {}
       THEN /\ pc' = [pc EXCEPT ![p] = "done"]
            /\ frame' = [frame EXCEPT ![p] =
                   [stk_callback |-> stk_callback, mpesa_data |-> mpesa_data,
                    checkout_request_id |-> checkout_request_id,
                    doc_found |-> FALSE]]
            /\ resp' = [resp EXCEPT ![p] = CallbackReceived]
       ELSE LET ref == CHOOSE i \in pending_donation : TRUE IN
            /\ pc' = [pc EXCEPT ![p] = "update"]
            /\ frame' = [frame EXCEPT ![p] =
                   [stk_callback |-> stk_callback, mpesa_data |-> mpesa_data,
                    checkout_request_id |-> checkout_request_id,
                    doc_found |-> TRUE,
                    doc |-> [reference |-> ref, data |-> store[ref]]]]
            /\ resp' = [resp EXCEPT ![p] = EmptyDict]
    /\ UNCHANGED <<store, issued, now, sms_attempts>>

\* doc.reference.update(...)
CallbackUpdate(p) ==
    /\ pc[p] = "update" /\ handler[p] = "app.mpesa_callback"
    /\ store' = [store EXCEPT ![frame[p].doc.reference] =
                     Updated(@, frame[p].mpesa_data, now)]
    /\ now' = now + 1
    /\ pc' = [pc EXCEPT ![p] = "send_sms"]
    /\ UNCHANGED <<issued, handler, frame, resp, sms_attempts, nreq>>

\* twilio_client.messages.create(...) returns (sent) or raises (~sent); the
\* loop over the one document ends and the handler returns
CallbackSms(p, sent) ==
    /\ pc[p] = "send_sms" /\ handler[p] = "app.mpesa_callback"
    /\ sms_attempts' = sms_attempts + 1
    /\ frame' = [frame EXCEPT ![p] = Merge(@, [sms_sent |-> sent])]
    /\ pc' = [pc EXCEPT ![p] = "done"]
    /\ resp' = [resp EXCEPT ![p] = AfterSms(sent)]
    /\ UNCHANGED <<store, issued, now, handler, nreq>>

\* ---------------------------------------------- /mpesa-callback (main.py)
MainCallback(p, body) ==
    /\ Accepts(p)
    /\ nreq' = nreq + 1
    /\ handler' = [handler EXCEPT ![p] = "main.mpesa_callback"]
    /\ pc' = [pc EXCEPT ![p] = "done"]
    /\ frame' = [frame EXCEPT ![p] = [body |-> body]]
    /\ resp' = [resp EXCEPT ![p] = Ok([message |-> "Callback received successfully"])]
    /\ UNCHANGED <<store, issued, now, sms_attempts>>

\* ------------------------------------------------------------ specification
Next ==
    \E p \in Workers :
        \/ \E data \in DonationRequests : DonateStart(p, data)
        \/ \E token_resp \in TokenResponses : DonateTokenResp(p, token_resp)
        \/ \E stk_resp \in StkResponses(CheckoutID(issued + 1)) : DonateStkResp(p, stk_resp)
        \/ \E data \in MainDonationRequests : MainDonateStart(p, data)
        \/ \E token_resp \in TokenResponses : MainDonateTokenResp(p, token_resp)
        \/ \E stk_resp \in StkResponses(CheckoutID(issued + 1)) : MainDonateStkResp(p, stk_resp)
        \/ \E body \in CallbackBodies : CallbackRecv(p, body)
        \/ CallbackUpdate(p)
        \/ \E sent \in BOOLEAN : CallbackSms(p, sent)
        \/ \E body \in CallbackBodies : MainCallback(p, body)

Spec == Init /\ [][Next]_vars

\* ------------------------------------------------------------ step helpers
\* worker p takes in a new request in this step
Started(p) == nreq' = nreq + 1 /\ Accepts(p)

\* worker p moves in this step
StepOf(p) == Started(p) \/ pc'[p] # pc[p]

\* p is /donate of app.py receiving the answer of the STK push in this step
StkAnswered(p) ==
    handler[p] = "app.donate" /\ pc[p] = "stk_push" /\ pc'[p] = "done"

\* p is /donate of app.py receiving the answer of the token exchange
TokenAnswered(p) ==
    handler[p] = "app.donate" /\ pc[p] = "get_token" /\ pc'[p] # "get_token"

\* p is /mpesa-callback of app.py taking in its request in this step
CallbackArrived(p) == Started(p) /\ handler'[p] = "app.mpesa_callback"

\* a document without its updated_at field
StripUpdatedAt(document) ==
    [k \in DOMAIN document \ {"updated_at"} |-> document[k]]

\* ------------------------------------------------------------------ C1
\* C1 as stated: when the token exchange and the STK push both answer 200 and
\* the push carries a CheckoutRequestID, /donate adds exactly one record, with
\* status Pending, that CheckoutRequestID, and name, phone, amount, email and
\* message exactly as submitted.
C1_Verbatim ==
    [][\A p \in Workers :
          (StkAnswered(p) /\ frame'[p].stk_resp.status_code = 200
              /\ Truthy(Get(frame'[p].stk_resp.json, "CheckoutRequestID", None)))
          => LET data == frame[p].data
                 r == store'[Len(store')] IN
             /\ Len(store') = Len(store) + 1
             /\ SubSeq(store', 1, Len(store)) = store
             /\ r.status = "Pending"
             /\ r.checkout_request_id = frame'[p].stk_resp.json.CheckoutRequestID
             /\ r.name = data.name /\ r.amount = data.amount
             /\ r.email = data.email /\ r.message = data.message
             /\ r.phone = data.phone]_vars

\* C1 amended: as C1, except that the stored phone is the submitted phone
\* prefixed with 254; name, amount, email and message are stored as submitted.
C1_PhonePrefixed ==
    [][\A p \in Workers :
          (StkAnswered(p) /\ frame'[p].stk_resp.status_code = 200
              /\ Truthy(Get(frame'[p].stk_resp.json, "CheckoutRequestID", None)))
          => LET data == frame[p].data
                 r == store'[Len(store')] IN
             /\ Len(store') = Len(store) + 1
             /\ SubSeq(store', 1, Len(store)) = store
             /\ r.status = "Pending"
             /\ r.checkout_request_id = frame'[p].stk_resp.json.CheckoutRequestID
             /\ r.name = data.name /\ r.amount = data.amount
             /\ r.email = data.email /\ r.message = data.message
             /\ r.phone = <<2, 5, 4>> \o data.phone
             /\ r.phone # data.phone]_vars

\* a /donate has returned the push response and its Pending record is stored
C1_Witness ==
    \E p \in Workers :
        /\ handler[p] = "app.donate" /\ pc[p] = "done"
        /\ resp[p].status_code = 200
        /\ Truthy(Get(frame[p].stk_resp.json, "CheckoutRequestID", None))
        /\ \E i \in DOMAIN store :
              /\ store[i].checkout_request_id = frame[p].stk_resp.json.CheckoutRequestID
              /\ store[i].status = "Pending"
              /\ store[i].email = "bob@example.org"
              /\ store[i].phone = <<2, 5, 4, 7, 3, 4>>

\* ------------------------------------------------------------------ C2
\* C2: a non-200 answer of the token exchange or of the STK push ends /donate
\* in a 500 response (for the push, its detail holds the upstream body) and
\* the step leaves the store as it was.
C2_UpstreamErrors ==
    [][\A p \in Workers :
          /\ (TokenAnswered(p) /\ frame'[p].token_resp.status_code # 200)
             => /\ pc'[p] = "done"
                /\ resp'[p].status_code = 500
                /\ store' = store
          /\ (StkAnswered(p) /\ frame'[p].stk_resp.status_code # 200)
             => /\ resp'[p].status_code = 500
                /\ \E i \in DOMAIN resp'[p].detail :
                       resp'[p].detail[i] = frame'[p].stk_resp.text
                /\ store' = store
          /\ (handler[p] = "app.donate" /\ StepOf(p) /\ ~StkAnswered(p))
             => store' = store]_vars

\* a /donate has failed on the STK push while a record of another donation exists
C2_Witness ==
    \E p \in Workers :
        /\ handler[p] = "app.donate" /\ pc[p] = "done"
        /\ resp[p].status_code = 500
        /\ "stk_resp" \in DOMAIN frame[p]
        /\ frame[p].stk_resp.status_code = 400
        /\ Len(store) = 1

\* ------------------------------------------------------------------ C3
\* C3: once the token exchange has answered 200 without an access_token,
\* /donate has ended in a 500 response and has submitted no STK push.
C3_NoPushWithoutToken ==
    \A p \in Workers :
        (/\ handler[p] \in {"app.donate", "main.donate"}
         /\ "token_resp" \in DOMAIN frame[p]
         /\ frame[p].token_resp.status_code = 200
         /\ "access_token" \notin DOMAIN frame[p].token_resp.json)
        => /\ pc[p] = "done"
           /\ resp[p].status_code = 500
           /\ "payload" \notin DOMAIN frame[p]

\* ------------------------------------------------------------------ C4
\* C4: a 200 answer of the STK push without a CheckoutRequestID (absent or
\* empty) adds no record and /donate returns the push response unchanged with
\* status 200; any step adds at most one record, and a record is added only by
\* the step in which /donate receives a 200 answer of the STK push.
C4_NoTokenNoRecord ==
    [][/\ \A p \in Workers :
             (StkAnswered(p) /\ frame'[p].stk_resp.status_code = 200
                 /\ Get(frame'[p].stk_resp.json, "CheckoutRequestID", None) \in {None, ""})
             => /\ store' = store
                /\ resp'[p] = [status_code |-> 200, body |-> frame'[p].stk_resp.json]
       /\ Len(store') \in {Len(store), Len(store) + 1}
       /\ Len(store') # Len(store)
          => \E p \in Workers :
                 StkAnswered(p) /\ frame'[p].stk_resp.status_code = 200]_vars

\* a /donate has returned a push response whose CheckoutRequestID is empty
C4_Witness ==
    \E p \in Workers :
        /\ handler[p] = "app.donate" /\ pc[p] = "done"
        /\ resp[p].status_code = 200
        /\ "CheckoutRequestID" \in DOMAIN resp[p].body
        /\ resp[p].body.CheckoutRequestID = ""
        /\ store = << >>

\* ------------------------------------------------------------------ C5
\* C5: a callback with ResultCode 0, non-empty metadata and the
\* CheckoutRequestID T of a stored Pending record is matched to that record,
\* and its update sets the record's status to Paid and its amount, phone,
\* receipt number and transaction date to the metadata's Amount, PhoneNumber,
\* MpesaReceiptNumber and TransactionDate; the record's other fields and every
\* other record stay as they were, and no record is added or deleted.
C5_Reconciles ==
    [][\A p \in Workers :
          /\ (/\ CallbackArrived(p)
              /\ "ResultCode" \in DOMAIN frame'[p].stk_callback
              /\ frame'[p].stk_callback.ResultCode = 0
              /\ "mpesa_data" \in DOMAIN frame'[p]
              /\ DOMAIN frame'[p].mpesa_data # {}
              /\ \E i \in DOMAIN store :
                    /\ store[i].checkout_request_id = frame'[p].checkout_request_id
                    /\ store[i].status = "Pending")
             => /\ pc'[p] = "update"
                /\ store[frame'[p].doc.reference].checkout_request_id
                       = frame'[p].stk_callback.CheckoutRequestID
                /\ frame'[p].doc.data.status = "Pending"
                /\ store' = store
          /\ (handler[p] = "app.mpesa_callback" /\ pc[p] = "update" /\ StepOf(p))
             => LET i == frame[p].doc.reference
                    m == frame[p].mpesa_data IN
                /\ store[i].checkout_request_id = frame[p].checkout_request_id
                /\ Len(store') = Len(store)
                /\ \A j \in DOMAIN store : j # i => store'[j] = store[j]
                /\ store'[i].status = "Paid"
                /\ store'[i].amount = m.Amount
                /\ store'[i].phone = m.PhoneNumber
                /\ store'[i].mpesa_receipt_number = m.MpesaReceiptNumber
                /\ store'[i].transaction_date =
                       (IF "TransactionDate" \in DOMAIN m THEN m.TransactionDate ELSE None)
                /\ \A k \in {"name", "email", "message", "checkout_request_id",
                             "created_at"} : store'[i][k] = store[i][k]]_vars

\* a callback has turned a Pending record to Paid, replacing the declared
\* amount and phone, while another record exists
C5_Witness ==
    \E p \in Workers :
        /\ handler[p] = "app.mpesa_callback" /\ pc[p] = "send_sms"
        /\ frame[p].doc.data.status = "Pending"
        /\ Len(store) = 2
        /\ LET r == store[frame[p].doc.reference] IN
           /\ r.status = "Paid" /\ r.amount = 500
           /\ r.amount # frame[p].doc.data.amount
           /\ r.phone = <<2, 5, 4, 7, 0, 0>>
           /\ r.phone # frame[p].doc.data.phone
           /\ r.mpesa_receipt_number = "ABC123"

\* ------------------------------------------------------------------ C6
\* C6: a callback whose ResultCode is not 0 ends at once with the
\* "Payment failed or cancelled" acknowledgement, and leaves the store and the
\* number of text messages attempted as they were.
C6_FailedCallback ==
    [][\A p \in Workers :
          (/\ CallbackArrived(p)
           /\ ~(/\ "ResultCode" \in DOMAIN frame'[p].stk_callback
                /\ frame'[p].stk_callback.ResultCode = 0))
          => /\ pc'[p] = "done"
             /\ resp'[p] = [status_code |-> 200,
                            body |-> [message |-> "Payment failed or cancelled"]]
             /\ store' = store
             /\ sms_attempts' = sms_attempts]_vars

\* a cancelled callback carrying the token of a Pending record has been answered
C6_Witness ==
    \E p \in Workers :
        /\ handler[p] = "app.mpesa_callback" /\ pc[p] = "done"
        /\ resp[p].body.message = "Payment failed or cancelled"
        /\ "ResultCode" \in DOMAIN frame[p].stk_callback
        /\ frame[p].stk_callback.ResultCode = 1032
        /\ \E i \in DOMAIN store :
              /\ store[i].checkout_request_id = frame[p].stk_callback.CheckoutRequestID
              /\ store[i].status = "Pending"

\* ------------------------------------------------------------------ C7
\* the callback of worker p passed the early returns and its lookup met no
\* record with status Pending
NoPendingMatch(p) ==
    /\ handler[p] = "app.mpesa_callback"
    /\ "doc_found" \in DOMAIN frame[p]
    /\ frame[p].doc_found => frame[p].doc.data.status # "Pending"

\* C7: a callback with ResultCode 0 and metadata whose CheckoutRequestID
\* matches no Pending record never changes the store, sends no text message,
\* and is answered with status 200.
C7_NoPendingNoWrite ==
    [][\A p \in Workers :
          (StepOf(p) /\ NoPendingMatch(p)')
          => /\ store' = store
             /\ sms_attempts' = sms_attempts
             /\ pc'[p] = "done" => resp'[p].status_code = 200]_vars

\* ------------------------------------------------------------------ C8
\* C8: when two callbacks with the same CheckoutRequestID and the same
\* metadata have both written, in whatever order their lookups and updates
\* ran, they wrote the same record, and that record is, updated_at apart, what
\* one such callback makes of it.
C8_DuplicateIdempotent ==
    \A p, q \in Workers :
        (/\ p # q
         /\ handler[p] = "app.mpesa_callback" /\ handler[q] = "app.mpesa_callback"
         /\ pc[p] \in {"send_sms", "done"} /\ pc[q] \in {"send_sms", "done"}
         /\ "doc" \in DOMAIN frame[p] /\ "doc" \in DOMAIN frame[q]
         /\ frame[p].checkout_request_id = frame[q].checkout_request_id
         /\ frame[p].stk_callback = frame[q].stk_callback)
        => /\ frame[p].doc.reference = frame[q].doc.reference
           /\ StripUpdatedAt(store[frame[p].doc.reference])
                  = StripUpdatedAt(Updated(frame[p].doc.data, frame[p].mpesa_data, 0))

\* two such callbacks both looked the record up while it was Pending, and
\* both have written
C8_Witness ==
    \E p, q \in Workers :
        /\ p # q
        /\ handler[p] = "app.mpesa_callback" /\ handler[q] = "app.mpesa_callback"
        /\ pc[p] = "done" /\ pc[q] = "done"
        /\ "doc" \in DOMAIN frame[p] /\ "doc" \in DOMAIN frame[q]
        /\ frame[p].stk_callback = frame[q].stk_callback
        /\ frame[p].doc.data.status = "Pending"
        /\ frame[q].doc.data.status = "Pending"
        /\ store[frame[p].doc.reference].status = "Paid"
        /\ store[frame[p].doc.reference].updated_at > 2

\* ------------------------------------------------------------------ C9
\* C9: a record is added with status Pending, and once its status is Paid no
\* step writes to it again.
C9_WrittenOnce ==
    [][/\ Len(store') >= Len(store)
       /\ \A i \in DOMAIN store' \ DOMAIN store : store'[i].status = "Pending"
       /\ \A i \in DOMAIN store :
             store[i].status = "Paid" => store'[i] = store[i]]_vars

\* ------------------------------------------------------------------ C10
\* C10: a text message is attempted only by a callback that matched a record,
\* one at a time, and only when that record is stored as Paid; when the send
\* fails the callback is still answered with its 200 acknowledgement and the
\* store stays as it was.
C10_SmsBestEffort ==
    [][/\ sms_attempts' # sms_attempts
          => /\ sms_attempts' = sms_attempts + 1
             /\ \E p \in Workers :
                   /\ handler[p] = "app.mpesa_callback" /\ StepOf(p)
                   /\ frame[p].doc_found
                   /\ store[frame[p].doc.reference].status = "Paid"
                   /\ store[frame[p].doc.reference].checkout_request_id
                          = frame[p].checkout_request_id
       /\ \A p \in Workers :
             (/\ handler[p] = "app.mpesa_callback" /\ pc[p] = "send_sms"
              /\ StepOf(p) /\ ~frame'[p].sms_sent)
             => /\ pc'[p] = "done"
                /\ resp'[p] = [status_code |-> 200, body |->
                       [message |-> "Callback received and donation updated successfully"]]
                /\ store' = store
                /\ store'[frame[p].doc.reference].status = "Paid"]_vars

\* a callback whose text message failed has been answered, its record Paid
C10_Witness ==
    \E p \in Workers :
        /\ handler[p] = "app.mpesa_callback" /\ pc[p] = "done"
        /\ "sms_sent" \in DOMAIN frame[p]
        /\ ~frame[p].sms_sent
        /\ resp[p].status_code = 200
        /\ store[frame[p].doc.reference].status = "Paid"
        /\ store[frame[p].doc.reference].amount = frame[p].mpesa_data.Amount

====
